---- MODULE Spec2Model ----
(***************************************************************************)
(* Model of the incremental photo backup (cmd/photos_backup.go and the     *)
(* photosbackup library): scan since the watermark, group by year-month,   *)
(* one worker goroutine per group behind a counting semaphore, zip, put    *)
(* with retries, advisory checksum verification, ledger write, watermark.  *)
(*                                                                         *)
(* Time is counted in ticks; TicksPerSec ticks make one second, so that    *)
(* the formats that keep only whole seconds really drop something.         *)
(***************************************************************************)
EXTENDS Integers, Sequences, FiniteSets, TLC

\* ------------------------------------------------------------------ bounds
MaxTime == 4          \* the clock stops advancing at this tick
MaxFiles == 2         \* files that ever appear in the source tree
MaxRuns == 2          \* process starts
MaxFaults == 3       \* failures of the file system and of the object store
MaxConc == 2          \* largest configured max_concurrent_uploads
TicksPerSec == 2      \* resolution of the clock below one second
SecPerMonth == 1      \* seconds in a calendar month (shrunk calendar)
MaxDirs == 3          \* directories of a tree given to the scan
MaxScanFiles == 3     \* files of a tree given to the scan

\* ------------------------------------------------------- program constants
MaxAttempts == 3
\* the documented default of max_concurrent_uploads
DefaultMaxConcurrentUploads == 8

\* the calendar: second 0 falls in November 2024
Calendar == [baseYear |-> 2024, firstMonth |-> 10, monthsPerYear |-> 12]

None == <<>>
NoFile == [exists |-> FALSE, len |-> 0, val |-> <<>>, junk |-> FALSE]

Bases == {1}
Exts == {".JPG", ".txt"}
AllowedExtensions == {".jpg"}

\* the configurations a process is started with: max_concurrent_uploads
\* unset (zero), one and MaxConc; a warm and a cold storage class; no
\* s3_key_format
Configs ==
    {[MaxConcurrentUploads |-> MaxConc, StorageClass |-> "STANDARD", S3KeyFormat |-> <<>>],
     [MaxConcurrentUploads |-> 1, StorageClass |-> "glacier", S3KeyFormat |-> <<>>],
     [MaxConcurrentUploads |-> 0, StorageClass |-> "STANDARD", S3KeyFormat |-> <<>>]}

\* ------------------------------------------------------------ time formats
\* whole seconds of a tick count: what Format("...05") and RFC3339 keep
Sec(t) == t \div TicksPerSec

\* a format that rounds to the next whole second instead of cutting
FormatRFC3339Up(t) == Sec(t) + 1

\* time.RFC3339 round trip: Format drops the ticks below the second and
\* Parse gives the instant at the start of that second
FormatRFC3339(t) == Sec(t)
ParseRFC3339(s) == s * TicksPerSec

MonthIndex(t) == Calendar.firstMonth + (Sec(t) \div SecPerMonth)
Year(t) == Calendar.baseYear + (MonthIndex(t) \div Calendar.monthsPerYear)
Month(t) == (MonthIndex(t) % Calendar.monthsPerYear) + 1

Digit(d) == <<"0", "1", "2", "3", "4", "5", "6", "7", "8", "9">>[d + 1]

RECURSIVE Pad(_, _)
\* fmt "%0<w>d" for a non-negative n that fits the width
Pad(n, w) == IF w = 0 THEN <<>> ELSE Append(Pad(n \div 10, w - 1), Digit(n % 10))

\* fmt.Sprintf("%04d-%02d", year, month)
YearMonthKey(t) == Pad(Year(t), 4) \o <<"-">> \o Pad(Month(t), 2)

\* Format("20060102T150405") on the shrunk calendar: date digits, then the
\* second within the month
FormatStamp(t) == Pad(Year(t), 4) \o Pad(Month(t), 2) \o <<"T">> \o Pad(Sec(t) % SecPerMonth, 2)

\* an extension comparison that keeps the letter case
ToLowerNone(s) == s

\* strings.ToLower / strings.ToUpper on the strings the model uses
ToLower(s) == CASE s = ".JPG" -> ".jpg" [] OTHER -> s
ToUpper(s) == CASE s = "glacier" -> "GLACIER" [] s = "deep_archive" -> "DEEP_ARCHIVE" [] OTHER -> s

RECURSIVE SplitFirst(_)
\* strings.Split(ym, "-")[0]
SplitFirst(s) == IF s = <<>> \/ Head(s) = "-" THEN <<>> ELSE <<Head(s)>> \o SplitFirst(Tail(s))

\* ------------------------------------------------------------------- state
VARIABLES
    now,               \* wall clock, in ticks
    tree,              \* source tree: set of file records
    lastUploadFile,    \* the watermark file: <<>> when absent, <<whole seconds>>, or Garbled
    stateFile,         \* upload_state.json on disk
    s3,                \* objects stored by successful puts
    zips,              \* local archive files: name -> content
    cfg,               \* configuration loaded by the process
    pc,                \* position of main
    runs,              \* processes started so far
    lastUpload,        \* main: watermark read at start
    newPhotos,         \* main: result of FindNewPhotos
    photosByYearMonth, \* main: groups
    todo,              \* main: groups the launch loop has not visited yet
    uploadState,       \* main: CompletedMonths, shared with the workers
    w,                 \* worker goroutines, by group key
    sem,               \* slots of the semaphore channel in use
    mu,                \* holder of mu
    progressMu,        \* holder of progressMu
    failedZips,
    failedUploads,
    fileProgress,
    hist,              \* history of past runs and what main printed (observation only)
    faults             \* failures of the environment so far

vars == <<now, tree, lastUploadFile, stateFile, s3, zips, cfg, pc, runs,
          lastUpload, newPhotos, photosByYearMonth, todo, uploadState, w,
          sem, mu, progressMu, failedZips, failedUploads, fileProgress, hist, faults>>

disk == <<lastUploadFile, stateFile, s3, zips>>
mainMem == <<lastUpload, newPhotos, photosByYearMonth, todo, uploadState>>
counters == <<failedZips, failedUploads, fileProgress>>
locks == <<sem, mu, progressMu>>

\* ----------------------------------------------------------------- helpers
Running == pc \in {"meta", "group", "launch", "wait"}
Stopped == pc \in {"idle", "done", "killed"}
\* the process ended by returning from main after the barrier
RanToEnd == pc = "done" /\ hist.last.how = "done"

Launched == DOMAIN w
Terminal(k) == w[k].pc \in {"Completed", "Failed"}
Keys(files) == {YearMonthKey(f.taken) : f \in files}

\* lexical order of the walk: directory first, then file name
PathBefore(p, q) == p[1] < q[1] \/ (p[1] = q[1] /\ p[2] < q[2])

RECURSIVE WalkDir(_)
\* filepath.WalkDir visits the files of a tree in lexical order
WalkDir(files) ==
    IF files = {} THEN <<>>
    ELSE LET f == CHOOSE x \in files : \A y \in files : y = x \/ PathBefore(x.path, y.path)
         IN <<f>> \o WalkDir(files \ {f})

\* a dedup key built from the whole path instead of the base name
SeenKeyPath(f) == <<FormatStamp(f.taken), "-", f.path>>

\* the dedup key of FindNewPhotos: time to the second, dash, base name
SeenKey(f) == <<FormatStamp(f.taken), "-", f.path[2]>>

\* a comparison that lets the instant of the watermark itself through
NotBefore(t, since) == t >= since

\* meta.Taken.After(since)
After(t, since) == t > since

RECURSIVE FindNewPhotosFrom(_, _, _, _)
FindNewPhotosFrom(walk, since, files, seen) ==
    IF walk = <<>> THEN files
    ELSE LET f == Head(walk)
         IN IF ToLower(f.ext) \in {ToLower(e) : e \in AllowedExtensions} /\ After(f.taken, since)
            THEN IF SeenKey(f) \notin seen
                 THEN FindNewPhotosFrom(Tail(walk), since, Append(files, f), seen \cup {SeenKey(f)})
                 ELSE FindNewPhotosFrom(Tail(walk), since, files, seen)
            ELSE FindNewPhotosFrom(Tail(walk), since, files, seen)

\* FindNewPhotos: the allowed files taken strictly after since, first of each
\* dedup key only, in walk order
FindNewPhotos(root, since) == FindNewPhotosFrom(WalkDir(root), since, <<>>, {})

\* the excluded summary of FindNewPhotos: count per lower-cased extension
Excluded(root) ==
    LET bad == {f \in root : ToLower(f.ext) \notin {ToLower(e) : e \in AllowedExtensions}}
    IN [e \in {ToLower(f.ext) : f \in bad} |-> Cardinality({f \in bad : ToLower(f.ext) = e})]

RECURSIVE Total(_)
\* the sum of the counts of an excluded summary
Total(counts) ==
    IF DOMAIN counts = {} THEN 0
    ELSE LET e == CHOOSE x \in DOMAIN counts : TRUE
         IN counts[e] + Total([x \in DOMAIN counts \ {e} |-> counts[x]])

RECURSIVE SelectKey(_, _)
SelectKey(files, key) ==
    IF files = <<>> THEN <<>>
    ELSE IF YearMonthKey(Head(files).taken) = key
         THEN <<Head(files)>> \o SelectKey(Tail(files), key)
         ELSE SelectKey(Tail(files), key)

RECURSIVE Readable(_, _)
\* the files of a list for which getPhotoMeta returns no error
Readable(files, lost) ==
    IF files = <<>> THEN <<>>
    ELSE IF Head(files) \in lost
         THEN Readable(Tail(files), lost)
         ELSE <<Head(files)>> \o Readable(Tail(files), lost)

\* GroupPhotosByYearMonth: key -> the files of that month, in input order;
\* a file whose getPhotoMeta fails (lost) is passed over, lines 161-164
GroupPhotosByYearMonth(files, lost) ==
    LET read == Readable(files, lost)
    IN [key \in {YearMonthKey(read[i].taken) : i \in DOMAIN read} |-> SelectKey(read, key)]

Range(seq) == {seq[i] : i \in DOMAIN seq}

\* a watermark file whose bytes are not one RFC3339 timestamp: cut off in
\* the middle of a write, or written by something else
Garbled == <<0, 0>>

\* time.Parse(time.RFC3339, ...) returns no error: the file holds the one
\* timestamp that Format wrote
Parses(content) == Len(content) = 1

\* a reader that takes the current time for a watermark it cannot read
GetLastUploadTimeOrNow(content) == IF Parses(content) THEN ParseRFC3339(content[1]) ELSE now

\* GetLastUploadTime: zero time when the file is missing or does not parse
GetLastUploadTime(content) ==
    IF content = <<>> THEN 0
    ELSE IF ~Parses(content) THEN 0
    ELSE ParseRFC3339(content[1])

\* zipName := fmt.Sprintf("%s_%s.zip", ym, timestamp)
ZipName(ym, t) == ym \o <<"_">> \o FormatStamp(t) \o <<".zip">>

\* the placeholders of s3_key_format and the format S3Key falls back to
YearTag == <<"{", "y", "e", "a", "r", "}">>
ZipTag == <<"{", "z", "i", "p", "}">>
DefaultFormat == YearTag \o <<"/">> \o ZipTag

RECURSIVE ReplaceAll(_, _, _)
\* strings.ReplaceAll: the occurrences of old in s that do not overlap,
\* taken from the left, each replaced by new
ReplaceAll(s, old, new) ==
    IF Len(s) < Len(old) THEN s
    ELSE IF SubSeq(s, 1, Len(old)) = old
         THEN new \o ReplaceAll(SubSeq(s, Len(old) + 1, Len(s)), old, new)
         ELSE <<Head(s)>> \o ReplaceAll(Tail(s), old, new)

\* a key that is always built from the default format
S3KeyDefault(c, year, zipName) == year \o <<"/">> \o zipName

\* S3Key: the configured format, or "{year}/{zip}" when it is empty, with
\* {year} replaced first and {zip} second
S3Key(c, year, zipName) ==
    LET format == IF c.S3KeyFormat = <<>> THEN DefaultFormat ELSE c.S3KeyFormat
    IN ReplaceAll(ReplaceAll(format, YearTag, year), ZipTag, zipName)

\* length in bytes of the encoded ledger, up to a monotone rescaling: every
\* entry has a key and an archive name of fixed length
LedgerBytes(m) == 1 + Cardinality(DOMAIN m)

\* LoadUploadState: the first JSON value of the file; a missing file, an
\* empty file or an open error all give the empty map
LoadUploadState(file) == IF file.exists /\ file.len > 0 THEN file.val ELSE <<>>

\* a write of the encoded map at offset 0 of a file that holds len bytes
WriteAtStart(file, m) ==
    IF LedgerBytes(m) >= file.len
    THEN [exists |-> TRUE, len |-> LedgerBytes(m), val |-> m, junk |-> FALSE]
    ELSE [exists |-> TRUE, len |-> file.len, val |-> m, junk |-> TRUE]

\* map assignment m[k] = v
Put(m, k, v) == [x \in DOMAIN m \cup {k} |-> IF x = k THEN v ELSE m[x]]
\* os.Remove of one name
Drop(m, k) == [x \in DOMAIN m \ {k} |-> m[x]]

\* a worker goroutine as it is launched at line 119
NewWorker ==
    [pc |-> "acquire", zipName |-> <<>>, i |-> 0, attempt |-> 1, slept |-> 0,
     puts |-> 0, putOk |-> 0, gets |-> 0, check |-> "none", buf |-> <<>>,
     inserted |-> FALSE, saved |-> "none", why |-> "none"]

Completed == {k \in Launched : w[k].pc = "Completed"}
Failed == {k \in Launched : w[k].pc = "Failed"}

\* what is known of a process when it ends
Summary(how) ==
    [how |-> how, completed |-> Completed, failed |-> Failed,
     saved |-> {k \in Completed : w[k].saved = "ok"},
     live |-> (Launched \ (Completed \cup Failed)) \cup todo,
     wmBefore |-> lastUploadFile]

NoSummary ==
    [how |-> "none", completed |-> {}, failed |-> {}, saved |-> {}, live |-> {}, wmBefore |-> <<>>]

\* the state of main at line 76: nothing grouped, nothing launched
NoGroups ==
    /\ photosByYearMonth' = <<>>
    /\ todo' = {}
    /\ uploadState' = <<>>
    /\ w' = <<>>
    /\ sem' = 0
    /\ mu' = None
    /\ progressMu' = None
    /\ failedZips' = 0
    /\ failedUploads' = 0
    /\ fileProgress' = 0

\* the memory of a process that is not running
NoProcess == lastUpload' = 0 /\ newPhotos' = <<>> /\ NoGroups

\* --------------------------------------------------------------------- Init
Init ==
    /\ now = TicksPerSec
    /\ tree = {}
    /\ lastUploadFile = <<>>
    /\ stateFile = NoFile
    /\ s3 = <<>>
    /\ zips = <<>>
    /\ cfg \in Configs
    /\ pc = "idle"
    /\ runs = 0
    /\ lastUpload = 0
    /\ newPhotos = <<>>
    /\ photosByYearMonth = <<>>
    /\ todo = {}
    /\ uploadState = <<>>
    /\ w = <<>>
    /\ sem = 0
    /\ mu = None
    /\ progressMu = None
    /\ failedZips = 0
    /\ failedUploads = 0
    /\ fileProgress = 0
    /\ faults = 0
    /\ hist = [discovered |-> {}, last |-> NoSummary, retry |-> {}, pending |-> {}, writes |-> 0,
               loaded |-> {}, owed |-> {},
               meta |-> "none", same |-> FALSE, rerun |-> FALSE, kept |-> {},
               excluded |-> <<>>]

\* ------------------------------------------------------------------ workers
Alive(k) == pc = "launch" /\ k \in Launched
At(k, where) == Alive(k) /\ w[k].pc = where
Files(k) == photosByYearMonth[k]

\* a gate that admits one sender more than the buffer holds
CanAcquireOneMore == sem <= cfg.MaxConcurrentUploads

\* sem <- struct{}{} goes through while the channel buffer has room
CanAcquire == sem < cfg.MaxConcurrentUploads

\* a barrier that opens as soon as one goroutine has finished
AllDoneAny == \E k \in Launched : Terminal(k)

\* wg.Wait returns: every launched goroutine has run its deferred wg.Done
AllDone == \A k \in Launched : Terminal(k)

\* main is past the launch loop and wg.Wait can return
AtBarrier == pc = "launch" /\ todo = {} /\ AllDone

\* -------------------------------------------------------------- environment
\* a call into the file system or the object store fails
Fault == faults < MaxFaults /\ faults' = faults + 1
NoFault == faults' = faults

\* The clock advances. The program reads the clock when a worker names its
\* archive and when the watermark is written, and the tree when it scans;
\* a tick or a new file anywhere else in a run commutes with the steps
\* around it, so both are taken at those points only.
Tick ==
    /\ now < MaxTime
    /\ \/ Stopped
       \/ AtBarrier
       \/ \E k \in Launched : At(k, "acquire") /\ CanAcquire
    /\ now' = now + 1
    /\ UNCHANGED <<tree, disk, cfg, pc, runs, mainMem, w, locks, counters, hist, faults>>

\* a file appears in the source tree, modified now: between two runs, or
\* during one (after its scan)
AddFile ==
    /\ Cardinality(tree) < MaxFiles
    /\ Stopped \/ AtBarrier
    /\ \E b \in Bases, e \in Exts :
          tree' = tree \cup {[path |-> <<Cardinality(tree) + 1, b>>, taken |-> now, ext |-> e]}
    /\ hist' = [hist EXCEPT !.retry = {}, !.owed = {}, !.same = FALSE, !.excluded = <<>>]
    /\ UNCHANGED <<now, disk, cfg, pc, runs, mainMem, w, locks, counters, faults>>

\* the operator deletes upload_state.json after a run that ran to its end,
\* to start over; hist.owed keeps the months that run had uploaded
DeleteLedger ==
    /\ RanToEnd
    /\ runs < MaxRuns
    /\ stateFile.exists
    /\ stateFile' = NoFile
    /\ hist' = [hist EXCEPT !.owed = hist.last.completed]
    /\ UNCHANGED <<now, tree, lastUploadFile, s3, zips, cfg, pc, runs, mainMem, w, locks, counters, faults>>

\* the process is killed from outside, or dies of a runtime fatal error
Kill ==
    /\ Running
    /\ pc' = "killed"
    /\ hist' = [hist EXCEPT !.last = Summary("killed"), !.retry = Failed, !.pending = {}, !.owed = {},
                            !.kept = {k \in Launched : w[k].saved = "ok"}, !.excluded = <<>>]
    /\ NoProcess
    /\ UNCHANGED <<now, tree, disk, cfg, runs, faults>>

\* --------------------------------------------------------------------- main
\* a main that goes on to the metadata step whatever the scan found
AfterScanAlways(found) == "meta"

\* lines 30-32, 43-45: main returns when the scan found nothing
AfterScan(found) == IF Len(found) = 0 THEN "done" ELSE "meta"

\* lines 26-45: read the watermark, scan, leave when nothing is new
Scan ==
    /\ Stopped
    /\ runs < MaxRuns
    /\ runs' = runs + 1
    /\ NoGroups
    /\ LET since == GetLastUploadTime(lastUploadFile)
           found == FindNewPhotos(tree, since)
       IN /\ lastUpload' = since
          /\ newPhotos' = found
          /\ pc' = AfterScan(found)
          /\ hist' = [hist EXCEPT !.discovered = @ \cup Range(found),
                                  !.last = IF Len(found) = 0 THEN Summary("nothing") ELSE NoSummary,
                                  !.pending = hist.retry, !.retry = {}, !.writes = 0,
                                  !.loaded = {}, !.meta = "none",
                                  !.rerun = (runs >= 1 /\ hist.same), !.same = TRUE,
                                  !.excluded = Excluded(tree)]
    /\ UNCHANGED <<now, tree, disk, cfg, faults>>

\* lines 47-74: write photo_metadata.json and put it, errors only logged
MetaUpload ==
    /\ pc = "meta"
    /\ pc' = "group"
    /\ \/ s3' = s3 /\ Fault /\ hist' = [hist EXCEPT !.meta = "error"]
       \/ /\ s3' = Put(s3, <<"photo_metadata.json">>, [body |-> {}, by |-> <<>>])
          /\ NoFault
          /\ hist' = [hist EXCEPT !.meta = "put"]
    /\ UNCHANGED <<now, tree, lastUploadFile, stateFile, zips, cfg, runs, mainMem, w, locks, counters>>

\* lines 76-110: group, reset the counters, load the ledger; every file the
\* grouping cannot open again is one failure of the file system
GroupAndLoad ==
    /\ pc = "group"
    /\ pc' = "launch"
    /\ \E lost \in SUBSET Range(newPhotos) :
          /\ faults + Cardinality(lost) <= MaxFaults
          /\ faults' = faults + Cardinality(lost)
          /\ photosByYearMonth' = GroupPhotosByYearMonth(newPhotos, lost)
    /\ todo' = DOMAIN photosByYearMonth'
    /\ uploadState' = LoadUploadState(stateFile)
    /\ hist' = [hist EXCEPT !.loaded = DOMAIN uploadState', !.meta = "none", !.rerun = FALSE,
                            !.excluded = <<>>]
    /\ UNCHANGED <<now, tree, disk, cfg, runs, lastUpload, newPhotos, w, locks, counters>>

\* a worker goroutine is inside the map assignment of line 184
Inserting == {k \in Launched : w[k].pc = "inserting"}

\* line 115: _, done := uploadState.CompletedMonths[ym]. The read takes no
\* lock; when it overlaps a worker's assignment to the same map the runtime
\* either ends the process (see Kill) or lets the read go on over a map that
\* is being rebuilt, where a key that is present can be missed.
Done(ym) == {ym \in DOMAIN uploadState} \cup (IF Inserting # {} THEN {FALSE} ELSE {})

\* lines 113-119: one iteration of the launch loop, in map order
LaunchIter ==
    /\ pc = "launch"
    /\ \E ym \in todo :
          /\ todo' = todo \ {ym}
          /\ \E done \in Done(ym) :
                w' = IF done THEN w ELSE w @@ (ym :> NewWorker)
    /\ UNCHANGED <<now, tree, disk, cfg, pc, runs, lastUpload, newPhotos,
                   photosByYearMonth, uploadState, locks, counters, hist, faults>>

\* UpdateLastUploadTime: the current time, formatted to the second
UpdateLastUploadTime == <<FormatRFC3339(now)>>

\* lines 193-197: the barrier, then the watermark is written and main
\* returns. os.WriteFile can fail before it opens the file or after it has
\* truncated it, and UpdateLastUploadTime drops the error.
WaitDone ==
    /\ pc = "launch"
    /\ todo = {}
    /\ AllDone
    /\ \/ lastUploadFile' = UpdateLastUploadTime /\ NoFault
       \/ lastUploadFile' \in {lastUploadFile, Garbled} /\ Fault
    /\ pc' = "done"
    /\ hist' = [hist EXCEPT !.last = Summary("done"), !.retry = Failed, !.pending = {},
                            !.writes = @ + 1, !.owed = {}, !.kept = {}]
    /\ NoProcess
    /\ UNCHANGED <<now, tree, stateFile, s3, zips, cfg, runs>>

\* lines 121-127: take a slot, then name the archive after the current second
Acquire(k) ==
    /\ At(k, "acquire")
    /\ CanAcquire
    /\ sem' = sem + 1
    /\ w' = [w EXCEPT ![k].pc = "zip", ![k].zipName = ZipName(k, now)]
    /\ UNCHANGED <<now, tree, disk, cfg, pc, runs, mainMem, mu, progressMu, counters, hist, faults>>

\* the deferred calls of a returning worker: release the slot, wg.Done
Return(k, state, why) ==
    /\ sem' = sem - 1
    /\ w' = [w EXCEPT ![k].pc = state, ![k].why = why]

\* line 129, ZipFiles succeeding: the archive holds every file of the group
ZipOk(k) ==
    /\ At(k, "zip")
    /\ zips' = Put(zips, w[k].zipName, [files |-> Range(Files(k)), complete |-> TRUE])
    /\ w' = [w EXCEPT ![k].pc = "progress"]
    /\ UNCHANGED <<now, tree, lastUploadFile, stateFile, s3, cfg, pc, runs, mainMem, locks, counters, hist, faults>>

\* line 129, ZipFiles failing: os.Create fails, or a member cannot be added
\* and the archive is left behind incomplete
ZipFail(k) ==
    /\ At(k, "zip")
    /\ \/ zips' = zips
       \/ zips' = Put(zips, w[k].zipName, [files |-> {}, complete |-> FALSE])
    /\ w' = [w EXCEPT ![k].pc = "zipfail"]
    /\ Fault
    /\ UNCHANGED <<now, tree, lastUploadFile, stateFile, s3, cfg, pc, runs, mainMem, locks, counters, hist>>

\* a lock on the build-failure path that lets a second holder in
ZipFailNoLock(k) ==
    /\ At(k, "zipfail")
    /\ mu' = k
    /\ w' = [w EXCEPT ![k].pc = "zipfailed"]
    /\ UNCHANGED <<now, tree, disk, cfg, pc, runs, mainMem, sem, progressMu, counters, hist, faults>>

\* line 131: mu.Lock()
ZipFailLock(k) ==
    /\ At(k, "zipfail")
    /\ mu = None
    /\ mu' = k
    /\ w' = [w EXCEPT ![k].pc = "zipfailed"]
    /\ UNCHANGED <<now, tree, disk, cfg, pc, runs, mainMem, sem, progressMu, counters, hist, faults>>

\* a worker that counts the failed build and then goes on with the group
ZipFailGoOn(k) ==
    /\ At(k, "zipfailed")
    /\ failedZips' = failedZips + 1
    /\ mu' = None
    /\ w' = [w EXCEPT ![k].pc = "progress", ![k].why = "zip"]
    /\ UNCHANGED <<now, tree, disk, cfg, pc, runs, mainMem, sem, progressMu, failedUploads, fileProgress,
                   hist, faults>>

\* lines 132-134: failedZips++, mu.Unlock(), return
ZipFailCount(k) ==
    /\ At(k, "zipfailed")
    /\ failedZips' = failedZips + 1
    /\ mu' = None
    /\ Return(k, "Failed", "zip")
    /\ UNCHANGED <<now, tree, disk, cfg, pc, runs, mainMem, progressMu, failedUploads, fileProgress, hist, faults>>

\* lines 85-88: totalFiles, the sum of len(files) over the groups
totalFiles == Total([k \in DOMAIN photosByYearMonth |-> Len(photosByYearMonth[k])])

\* line 141: progressMu.Lock()
ProgressLock(k) ==
    /\ At(k, "progress")
    /\ progressMu = None
    /\ progressMu' = k
    /\ w' = [w EXCEPT ![k].pc = "progressing"]
    /\ UNCHANGED <<now, tree, disk, cfg, pc, runs, mainMem, sem, mu, counters, hist, faults>>

\* a progress step that counts the group once, not each of its files
ProgressStepGroup(k) ==
    /\ At(k, "progressing")
    /\ fileProgress' = fileProgress + 1
    /\ progressMu' = None
    /\ w' = [w EXCEPT ![k].i = Len(Files(k)), ![k].pc = "upload"]
    /\ UNCHANGED <<now, tree, disk, cfg, pc, runs, mainMem, sem, mu, failedZips, failedUploads, hist, faults>>

\* lines 142-144: fileProgress++, updateBar, progressMu.Unlock(), next file
ProgressStep(k) ==
    /\ At(k, "progressing")
    /\ fileProgress' = fileProgress + 1
    /\ progressMu' = None
    /\ w' = [w EXCEPT ![k].i = @ + 1,
                      ![k].pc = IF w[k].i + 1 < Len(Files(k)) THEN "progress" ELSE "upload"]
    /\ UNCHANGED <<now, tree, disk, cfg, pc, runs, mainMem, sem, mu, failedZips, failedUploads, hist, faults>>

\* lines 137-138: the remote key of the group's archive
RemoteKey(k) == S3Key(cfg, SplitFirst(k), w[k].zipName)

\* line 150, UploadToS3 returning nil: the object now holds the archive, and
\* line 151 leaves the loop
UploadOk(k) ==
    /\ At(k, "upload")
    /\ w[k].zipName \in DOMAIN zips
    /\ s3' = Put(s3, RemoteKey(k), [body |-> zips[w[k].zipName].files, by |-> k])
    /\ w' = [w EXCEPT ![k].pc = "verify", ![k].puts = @ + 1, ![k].putOk = @ + 1]
    /\ UNCHANGED <<now, tree, lastUploadFile, stateFile, zips, cfg, pc, runs, mainMem, locks, counters, hist, faults>>

\* a loop condition that stops one attempt short
TryAgainShort(attempt) == attempt < MaxAttempts

\* line 149: the loop condition, tested with the incremented attempt
TryAgain(attempt) == attempt <= MaxAttempts

\* lines 150-156, 149: UploadToS3 returns an error; the worker logs it,
\* sleeps attempt seconds and goes to the next attempt, if there is one
UploadErr(k) ==
    /\ At(k, "upload")
    /\ w' = [w EXCEPT ![k].puts = @ + 1,
                      ![k].slept = @ + w[k].attempt,
                      ![k].attempt = @ + 1,
                      ![k].pc = IF TryAgain(w[k].attempt + 1) THEN "upload" ELSE "upfail"]
    /\ Fault
    /\ UNCHANGED <<now, tree, disk, cfg, pc, runs, mainMem, locks, counters, hist>>

\* line 159: mu.Lock()
UploadFailLock(k) ==
    /\ At(k, "upfail")
    /\ mu = None
    /\ mu' = k
    /\ w' = [w EXCEPT ![k].pc = "upfailed"]
    /\ UNCHANGED <<now, tree, disk, cfg, pc, runs, mainMem, sem, progressMu, counters, hist, faults>>

\* a worker that clears its archive away when it gives the group up
UploadFailCleanup(k) ==
    /\ At(k, "upfailed")
    /\ failedUploads' = failedUploads + 1
    /\ mu' = None
    /\ zips' = Drop(zips, w[k].zipName)
    /\ Return(k, "Failed", "upload")
    /\ UNCHANGED <<now, tree, lastUploadFile, stateFile, s3, cfg, pc, runs, mainMem, progressMu,
                   failedZips, fileProgress, hist, faults>>

\* lines 160-162: failedUploads++, mu.Unlock(), return
UploadFailCount(k) ==
    /\ At(k, "upfailed")
    /\ failedUploads' = failedUploads + 1
    /\ mu' = None
    /\ Return(k, "Failed", "upload")
    /\ UNCHANGED <<now, tree, disk, cfg, pc, runs, mainMem, progressMu, failedZips, fileProgress, hist, faults>>

\* a comparison of the configured class that forgets strings.ToUpper
ColdStorageExact == cfg.StorageClass \in {"GLACIER", "DEEP_ARCHIVE"}

\* lines 165-166: verification is skipped for the cold storage classes
ColdStorage == ToUpper(cfg.StorageClass) \in {"GLACIER", "DEEP_ARCHIVE"}

\* FileSHA256 / S3SHA256: a digest, equal exactly for equal content
Sha256(content) == <<"sha256", content>>

\* lines 176-179: the outcome of the comparison, which is only logged
Compare(localSum, remoteSum) == IF localSum # remoteSum THEN "mismatch" ELSE "verified"

\* a worker that treats a failed or mismatching verification as a failed upload
AfterCheckStrict(check) == IF check \in {"mismatch", "remoteerr", "localerr"} THEN "upfail" ELSE "insert"

\* lines 168-182: whatever the verification gives is logged and the worker goes on
\* to line 184
AfterCheck(check) == "insert"

\* lines 165-167: cold storage class, nothing is read back
VerifySkip(k) ==
    /\ At(k, "verify")
    /\ ColdStorage
    /\ w' = [w EXCEPT ![k].pc = AfterCheck("skipped"), ![k].check = "skipped"]
    /\ UNCHANGED <<now, tree, disk, cfg, pc, runs, mainMem, locks, counters, hist, faults>>

\* lines 169-171: FileSHA256 of the local archive fails
VerifyLocalErr(k) ==
    /\ At(k, "verify")
    /\ ~ColdStorage
    /\ w' = [w EXCEPT ![k].pc = AfterCheck("localerr"), ![k].check = "localerr"]
    /\ Fault
    /\ UNCHANGED <<now, tree, disk, cfg, pc, runs, mainMem, locks, counters, hist>>

\* lines 173-175: the download of S3SHA256 fails
VerifyRemoteErr(k) ==
    /\ At(k, "verify")
    /\ ~ColdStorage
    /\ w' = [w EXCEPT ![k].pc = AfterCheck("remoteerr"), ![k].check = "remoteerr", ![k].gets = @ + 1]
    /\ Fault
    /\ UNCHANGED <<now, tree, disk, cfg, pc, runs, mainMem, locks, counters, hist>>

\* lines 169-181: both digests are computed and compared; the bytes that
\* come back are those of the archive, or not
VerifyCompare(k) ==
    /\ At(k, "verify")
    /\ ~ColdStorage
    /\ w[k].zipName \in DOMAIN zips
    /\ RemoteKey(k) \in DOMAIN s3
    /\ \E same \in BOOLEAN :
          LET localSum == Sha256([data |-> zips[w[k].zipName].files, same |-> TRUE])
              remoteSum == Sha256([data |-> s3[RemoteKey(k)].body, same |-> same])
          IN /\ w' = [w EXCEPT ![k].pc = AfterCheck(Compare(localSum, remoteSum)),
                               ![k].check = Compare(localSum, remoteSum),
                               ![k].gets = @ + 1]
             /\ IF same THEN NoFault ELSE Fault
    /\ UNCHANGED <<now, tree, disk, cfg, pc, runs, mainMem, locks, counters, hist>>

\* line 184 begins: the runtime starts writing the shared map, no lock held
InsertBegin(k) ==
    /\ At(k, "insert")
    /\ w' = [w EXCEPT ![k].pc = "inserting"]
    /\ UNCHANGED <<now, tree, disk, cfg, pc, runs, mainMem, locks, counters, hist, faults>>

\* line 184 ends: uploadState.CompletedMonths[ym] = zipName
InsertEnd(k) ==
    /\ At(k, "inserting")
    /\ uploadState' = Put(uploadState, k, w[k].zipName)
    /\ w' = [w EXCEPT ![k].pc = "save", ![k].inserted = TRUE]
    /\ UNCHANGED <<now, tree, disk, cfg, pc, runs, lastUpload, newPhotos, photosByYearMonth,
                   todo, locks, counters, hist, faults>>

\* SaveUploadState lines 27-34, first half: os.Create truncates the file,
\* Encode marshals the map as it is now
SaveCreate(k) ==
    /\ At(k, "save")
    /\ stateFile' = [exists |-> TRUE, len |-> 0, val |-> <<>>, junk |-> FALSE]
    /\ w' = [w EXCEPT ![k].pc = "write", ![k].buf = uploadState]
    /\ UNCHANGED <<now, tree, lastUploadFile, s3, zips, cfg, pc, runs, mainMem, locks, counters, hist, faults>>

\* SaveUploadState lines 27-30, os.Create failing: the error is dropped by
\* the caller at line 185
SaveCreateErr(k) ==
    /\ At(k, "save")
    /\ w' = [w EXCEPT ![k].pc = "bar", ![k].saved = "error"]
    /\ Fault
    /\ UNCHANGED <<now, tree, disk, cfg, pc, runs, mainMem, locks, counters, hist>>

\* SaveUploadState line 34, second half: Encode writes the marshalled bytes
\* at the start of the file it created
SaveWrite(k) ==
    /\ At(k, "write")
    /\ stateFile' = WriteAtStart(stateFile, w[k].buf)
    /\ w' = [w EXCEPT ![k].pc = "bar", ![k].saved = "ok", ![k].buf = <<>>]
    /\ UNCHANGED <<now, tree, lastUploadFile, s3, zips, cfg, pc, runs, mainMem, locks, counters, hist, faults>>

\* lines 186-191: updateBar under progressMu, os.Remove(zipName), return.
\* The archive is a file this worker created in the working directory a
\* moment ago; its removal is taken to succeed.
Finish(k) ==
    /\ At(k, "bar")
    /\ progressMu = None
    /\ zips' = Drop(zips, w[k].zipName)
    /\ Return(k, "Completed", "none")
    /\ UNCHANGED <<now, tree, lastUploadFile, stateFile, s3, cfg, pc, runs, mainMem, mu, progressMu, counters, hist, faults>>

Next ==
    \/ Tick
    \/ AddFile
    \/ DeleteLedger
    \/ Kill
    \/ Scan
    \/ MetaUpload
    \/ GroupAndLoad
    \/ LaunchIter
    \/ WaitDone
    \/ \E k \in Launched : Acquire(k)
    \/ \E k \in Launched : ZipOk(k)
    \/ \E k \in Launched : ZipFail(k)
    \/ \E k \in Launched : ZipFailLock(k)
    \/ \E k \in Launched : ZipFailCount(k)
    \/ \E k \in Launched : ProgressLock(k)
    \/ \E k \in Launched : ProgressStep(k)
    \/ \E k \in Launched : UploadOk(k)
    \/ \E k \in Launched : UploadErr(k)
    \/ \E k \in Launched : UploadFailLock(k)
    \/ \E k \in Launched : UploadFailCount(k)
    \/ \E k \in Launched : VerifySkip(k)
    \/ \E k \in Launched : VerifyLocalErr(k)
    \/ \E k \in Launched : VerifyRemoteErr(k)
    \/ \E k \in Launched : VerifyCompare(k)
    \/ \E k \in Launched : InsertBegin(k)
    \/ \E k \in Launched : InsertEnd(k)
    \/ \E k \in Launched : SaveCreate(k)
    \/ \E k \in Launched : SaveCreateErr(k)
    \/ \E k \in Launched : SaveWrite(k)
    \/ \E k \in Launched : Finish(k)

Spec == Init /\ [][Next]_vars

\* ------------------------------------------------- a run that nobody stops
\* Lines 115 and 184 use the map with no lock. The runtime checks a flag
\* that a map write holds while it works: a second write, or a read, that
\* meets the flag ends the process with the fatal error "concurrent map
\* writes" or "concurrent map read and map write". The check is not
\* synchronised itself, so the overlap can also pass unnoticed.
MapFatal ==
    /\ pc = "launch"
    /\ \/ Cardinality(Inserting) >= 2
       \/ Inserting # {} /\ todo # {}
    /\ pc' = "killed"
    /\ hist' = [hist EXCEPT !.last = Summary("killed"), !.retry = Failed, !.pending = {}, !.owed = {},
                            !.kept = {k \in Launched : w[k].saved = "ok"}, !.excluded = <<>>]
    /\ NoProcess
    /\ UNCHANGED <<now, tree, disk, cfg, runs, faults>>

\* a step of main after the scan
MainStep == MetaUpload \/ GroupAndLoad \/ LaunchIter \/ WaitDone

\* a step of some worker goroutine
WorkerStep ==
    \E k \in Launched :
        \/ Acquire(k)
        \/ ZipOk(k)
        \/ ZipFail(k)
        \/ ZipFailLock(k)
        \/ ZipFailCount(k)
        \/ ProgressLock(k)
        \/ ProgressStep(k)
        \/ UploadOk(k)
        \/ UploadErr(k)
        \/ UploadFailLock(k)
        \/ UploadFailCount(k)
        \/ VerifySkip(k)
        \/ VerifyLocalErr(k)
        \/ VerifyRemoteErr(k)
        \/ VerifyCompare(k)
        \/ InsertBegin(k)
        \/ InsertEnd(k)
        \/ SaveCreate(k)
        \/ SaveCreateErr(k)
        \/ SaveWrite(k)
        \/ Finish(k)

\* the process is started with max_concurrent_uploads set
InitFair == Init /\ cfg.MaxConcurrentUploads >= 1

\* the steps of a process that is not killed from outside
NextFair ==
    \/ Tick
    \/ AddFile
    \/ DeleteLedger
    \/ Scan
    \/ MainStep
    \/ WorkerStep
    \/ MapFatal

\* The scheduler runs every goroutine that can run, and every call into a
\* collaborator returns: main and the workers, taken together, do not stop
\* while one of their steps is possible.
SpecFair == InitFair /\ [][NextFair]_vars /\ WF_vars(MainStep) /\ WF_vars(WorkerStep)

\* ------------------------------------------------------- the worked example
\* The end-to-end example: three files of one month and two of the next, no
\* watermark, no ledger, two slots, and collaborators that never fail. The
\* two months are the first two of the model's calendar; the pipeline looks
\* at a month only to form the group key.
ExampleTree ==
    {[path |-> <<1, b>>, taken |-> 1, ext |-> ".JPG"] : b \in 1..3}
        \cup {[path |-> <<1, b>>, taken |-> TicksPerSec * SecPerMonth, ext |-> ".JPG"] : b \in 4..5}

ExampleKeys == Keys(ExampleTree)
ExampleStart == TicksPerSec * SecPerMonth + 1

InitExample ==
    /\ now = ExampleStart
    /\ tree = ExampleTree
    /\ lastUploadFile = <<>>
    /\ stateFile = NoFile
    /\ s3 = <<>>
    /\ zips = <<>>
    /\ cfg = [MaxConcurrentUploads |-> 2, StorageClass |-> "STANDARD", S3KeyFormat |-> <<>>]
    /\ pc = "idle"
    /\ runs = 0
    /\ lastUpload = 0
    /\ newPhotos = <<>>
    /\ photosByYearMonth = <<>>
    /\ todo = {}
    /\ uploadState = <<>>
    /\ w = <<>>
    /\ sem = 0
    /\ mu = None
    /\ progressMu = None
    /\ failedZips = 0
    /\ failedUploads = 0
    /\ fileProgress = 0
    /\ faults = MaxFaults
    /\ hist = [discovered |-> {}, last |-> NoSummary, retry |-> {}, pending |-> {}, writes |-> 0,
               loaded |-> {}, owed |-> {},
               meta |-> "none", same |-> FALSE, rerun |-> FALSE, kept |-> {},
               excluded |-> <<>>]

\* the steps of a process whose collaborators never fail and that nobody
\* kills
NextExample ==
    \/ Tick
    \/ Scan
    \/ MetaUpload
    \/ GroupAndLoad
    \/ LaunchIter
    \/ WaitDone
    \/ \E k \in Launched : Acquire(k)
    \/ \E k \in Launched : ZipOk(k)
    \/ \E k \in Launched : ProgressLock(k)
    \/ \E k \in Launched : ProgressStep(k)
    \/ \E k \in Launched : UploadOk(k)
    \/ \E k \in Launched : VerifyCompare(k)
    \/ \E k \in Launched : InsertBegin(k)
    \/ \E k \in Launched : InsertEnd(k)
    \/ \E k \in Launched : SaveCreate(k)
    \/ \E k \in Launched : SaveWrite(k)
    \/ \E k \in Launched : Finish(k)

SpecExample == InitExample /\ [][NextExample]_vars

\* ------------------------------------------ groups of more than one file
\* The tree of the worked example, three files of one month and two of the
\* next, with collaborators that may fail and a ledger that may already
\* hold the first month from a run before.
ExampleLedger ==
    [k \in {YearMonthKey(1)} |-> ZipName(YearMonthKey(1), 0)]

InitProgress ==
    /\ now = ExampleStart
    /\ tree = ExampleTree
    /\ lastUploadFile = <<>>
    /\ stateFile \in {NoFile, WriteAtStart(NoFile, ExampleLedger)}
    /\ s3 = <<>>
    /\ zips = <<>>
    /\ cfg \in {c \in Configs : c.MaxConcurrentUploads >= 1 /\ c.StorageClass = "STANDARD"}
    /\ pc = "idle"
    /\ runs = 0
    /\ lastUpload = 0
    /\ newPhotos = <<>>
    /\ photosByYearMonth = <<>>
    /\ todo = {}
    /\ uploadState = <<>>
    /\ w = <<>>
    /\ sem = 0
    /\ mu = None
    /\ progressMu = None
    /\ failedZips = 0
    /\ failedUploads = 0
    /\ fileProgress = 0
    /\ faults = 0
    /\ hist = [discovered |-> {}, last |-> NoSummary, retry |-> {}, pending |-> {}, writes |-> 0,
               loaded |-> {}, owed |-> {},
               meta |-> "none", same |-> FALSE, rerun |-> FALSE, kept |-> {},
               excluded |-> <<>>]

NextProgress ==
    \/ Scan
    \/ MetaUpload
    \/ GroupAndLoad
    \/ LaunchIter
    \/ WaitDone
    \/ \E k \in Launched : Acquire(k)
    \/ \E k \in Launched : ZipOk(k)
    \/ \E k \in Launched : ZipFail(k)
    \/ \E k \in Launched : ZipFailLock(k)
    \/ \E k \in Launched : ZipFailCount(k)
    \/ \E k \in Launched : ProgressLock(k)
    \/ \E k \in Launched : ProgressStep(k)
    \/ \E k \in Launched : UploadOk(k)
    \/ \E k \in Launched : UploadErr(k)
    \/ \E k \in Launched : UploadFailLock(k)
    \/ \E k \in Launched : UploadFailCount(k)
    \/ \E k \in Launched : VerifyCompare(k)
    \/ \E k \in Launched : InsertBegin(k)
    \/ \E k \in Launched : InsertEnd(k)
    \/ \E k \in Launched : SaveCreate(k)
    \/ \E k \in Launched : SaveWrite(k)
    \/ \E k \in Launched : Finish(k)

SpecProgress == InitProgress /\ [][NextProgress]_vars

\* ------------------------------------------- a file that arrives mid-run
\* Runs whose collaborators never fail and that nobody kills, started one
\* tick after the zero time, so that a scan, a file that arrives after it
\* and the watermark write can fall into three different seconds, and two
\* months of one year can be in one run. The configuration has no
\* s3_key_format or one of KeyTemplates.
KeyTemplates ==
    {<<>>,
     <<"{zip}", "@", "{year}">>,
     <<"{year}", "/", "{year}", "/", "a">>,
     <<"a", "/", "{zip}">>}

RECURSIVE Render(_)
\* a template as config.json spells it
Render(t) ==
    IF t = <<>> THEN <<>>
    ELSE (CASE Head(t) = "{year}" -> YearTag
            [] Head(t) = "{zip}" -> ZipTag
            [] OTHER -> <<Head(t)>>) \o Render(Tail(t))

RECURSIVE Fill(_, _, _)
\* a template with each placeholder replaced by its value
Fill(t, year, zipName) ==
    IF t = <<>> THEN <<>>
    ELSE (CASE Head(t) = "{year}" -> year
            [] Head(t) = "{zip}" -> zipName
            [] OTHER -> <<Head(t)>>) \o Fill(Tail(t), year, zipName)

InitLate ==
    /\ now = 1
    /\ tree = {}
    /\ lastUploadFile = <<>>
    /\ stateFile = NoFile
    /\ s3 = <<>>
    /\ zips = <<>>
    /\ cfg \in {[c EXCEPT !.S3KeyFormat = Render(t)] :
                  c \in {x \in Configs : x.MaxConcurrentUploads >= 1}, t \in KeyTemplates}
    /\ pc = "idle"
    /\ runs = 0
    /\ lastUpload = 0
    /\ newPhotos = <<>>
    /\ photosByYearMonth = <<>>
    /\ todo = {}
    /\ uploadState = <<>>
    /\ w = <<>>
    /\ sem = 0
    /\ mu = None
    /\ progressMu = None
    /\ failedZips = 0
    /\ failedUploads = 0
    /\ fileProgress = 0
    /\ faults = MaxFaults
    /\ hist = [discovered |-> {}, last |-> NoSummary, retry |-> {}, pending |-> {}, writes |-> 0,
               loaded |-> {}, owed |-> {},
               meta |-> "none", same |-> FALSE, rerun |-> FALSE, kept |-> {},
               excluded |-> <<>>]

NextLate ==
    \/ Tick
    \/ AddFile
    \/ Scan
    \/ MetaUpload
    \/ GroupAndLoad
    \/ LaunchIter
    \/ WaitDone
    \/ \E k \in Launched : Acquire(k)
    \/ \E k \in Launched : ZipOk(k)
    \/ \E k \in Launched : ProgressLock(k)
    \/ \E k \in Launched : ProgressStep(k)
    \/ \E k \in Launched : UploadOk(k)
    \/ \E k \in Launched : VerifySkip(k)
    \/ \E k \in Launched : VerifyCompare(k)
    \/ \E k \in Launched : InsertBegin(k)
    \/ \E k \in Launched : InsertEnd(k)
    \/ \E k \in Launched : SaveCreate(k)
    \/ \E k \in Launched : SaveWrite(k)
    \/ \E k \in Launched : Finish(k)

SpecLate == InitLate /\ [][NextLate]_vars

\* ----------------------------------------------------- the scan on its own
\* FindNewPhotos applied to every tree of at most MaxScanFiles files, taken
\* from one base name in each of MaxDirs directories and a second base name
\* in the first, with any time up to MaxTime and any extension, and to every
\* watermark file: none, a whole second, or bytes that do not parse.
ScanPaths == {<<d, 1>> : d \in 1..MaxDirs} \cup {<<1, 2>>}
ScanAttrs == [taken : 0..MaxTime, ext : Exts]
ScanWatermarks == {<<>>, Garbled} \cup {<<s>> : s \in 0..Sec(MaxTime)}

InitScan ==
    /\ now = MaxTime
    /\ \E P \in SUBSET ScanPaths :
          /\ Cardinality(P) <= MaxScanFiles
          /\ \E a \in [P -> ScanAttrs] :
                tree = {[path |-> p, taken |-> a[p].taken, ext |-> a[p].ext] : p \in P}
    /\ lastUploadFile \in ScanWatermarks
    /\ stateFile = NoFile
    /\ s3 = <<>>
    /\ zips = <<>>
    /\ cfg = [MaxConcurrentUploads |-> MaxConc, StorageClass |-> "STANDARD", S3KeyFormat |-> <<>>]
    /\ pc = "idle"
    /\ runs = 0
    /\ lastUpload = 0
    /\ newPhotos = <<>>
    /\ photosByYearMonth = <<>>
    /\ todo = {}
    /\ uploadState = <<>>
    /\ w = <<>>
    /\ sem = 0
    /\ mu = None
    /\ progressMu = None
    /\ failedZips = 0
    /\ failedUploads = 0
    /\ fileProgress = 0
    /\ faults = 0
    /\ hist = [discovered |-> {}, last |-> NoSummary, retry |-> {}, pending |-> {}, writes |-> 0,
               loaded |-> {}, owed |-> {},
               meta |-> "none", same |-> FALSE, rerun |-> FALSE, kept |-> {},
               excluded |-> <<>>]

NextScan == Scan

SpecScan == InitScan /\ [][NextScan]_vars

\* the allowed files of the tree that are after the watermark the scan read
Eligible == {f \in tree : ToLower(f.ext) \in AllowedExtensions /\ f.taken > lastUpload}

\* the identity of the spec: resolved time to the second, and base name
SameIdentity(f, g) == Sec(f.taken) = Sec(g.taken) /\ f.path[2] = g.path[2]

\* ---------------------------------------------------------------- test mode
\* cmd/testupload/main.go: the test upload. It scans and groups with the
\* library functions of the backup and writes photo_metadata.json the same
\* way (MetaUpload); the rest of its main is modelled by the actions below.
\* Its workers go through the positions start, zip, zipfail, zipfailed,
\* progress, progressing, upload, upfail, upfailed, bar.
TestPool == {[path |-> <<1, b>>, taken |-> b + 1, ext |-> ".JPG"] : b \in 1..MaxScanFiles}

TestConfigs ==
    [MaxConcurrentUploads : {1, MaxConc}, StorageClass : {"STANDARD"}, TestModeLimit : 0..MaxFiles]

\* lines 40-43: newFiles[:limit] when the limit is set and exceeded
Limit(files, limit) ==
    IF limit > 0 /\ Len(files) > limit THEN SubSeq(files, 1, limit) ELSE files

\* line 103: fmt.Sprintf("test-%s_%s.zip", ym, timestamp)
TestZipName(ym, t) == <<"t", "e", "s", "t", "-">> \o ZipName(ym, t)

\* line 115: fmt.Sprintf("test/%s/%s", year, zipName)
TestS3Key(year, zipName) == <<"t", "e", "s", "t", "/">> \o year \o <<"/">> \o zipName

TestRemoteKey(k) == TestS3Key(SplitFirst(k), w[k].zipName)

InitTest ==
    /\ now = TicksPerSec
    /\ tree \in SUBSET TestPool
    /\ lastUploadFile = <<>>
    /\ stateFile = NoFile
    /\ s3 = <<>>
    /\ zips = <<>>
    /\ cfg \in TestConfigs
    /\ pc = "idle"
    /\ runs = 0
    /\ lastUpload = 0
    /\ newPhotos = <<>>
    /\ photosByYearMonth = <<>>
    /\ todo = {}
    /\ uploadState = <<>>
    /\ w = <<>>
    /\ sem = 0
    /\ mu = None
    /\ progressMu = None
    /\ failedZips = 0
    /\ failedUploads = 0
    /\ fileProgress = 0
    /\ faults = 0
    /\ hist = [discovered |-> {}, last |-> NoSummary, retry |-> {}, pending |-> {}, writes |-> 0,
               loaded |-> {}, owed |-> {},
               meta |-> "none", same |-> FALSE, rerun |-> FALSE, kept |-> {},
               excluded |-> <<>>]

\* lines 22-43: read the watermark, scan, leave when nothing is new, cut the
\* list to test_mode_limit
TestScan ==
    /\ pc = "idle"
    /\ runs' = runs + 1
    /\ LET since == GetLastUploadTime(lastUploadFile)
           found == FindNewPhotos(tree, since)
       IN /\ lastUpload' = since
          /\ newPhotos' = Limit(found, cfg.TestModeLimit)
          /\ pc' = IF Len(found) = 0 THEN "done" ELSE "meta"
    /\ UNCHANGED <<now, tree, disk, cfg, photosByYearMonth, todo, uploadState, w, locks, counters, hist, faults>>

\* lines 73-95: group and reset the counters; no ledger is loaded
TestGroup ==
    /\ pc = "group"
    /\ pc' = "launch"
    /\ \E lost \in SUBSET Range(newPhotos) :
          /\ faults + Cardinality(lost) <= MaxFaults
          /\ faults' = faults + Cardinality(lost)
          /\ photosByYearMonth' = GroupPhotosByYearMonth(newPhotos, lost)
    /\ todo' = DOMAIN photosByYearMonth'
    /\ UNCHANGED <<now, tree, disk, cfg, runs, lastUpload, newPhotos, uploadState, w, locks, counters, hist>>

\* lines 97-99: one iteration of the launch loop; every group gets a worker
TestLaunchIter ==
    /\ pc = "launch"
    /\ \E ym \in todo :
          /\ todo' = todo \ {ym}
          /\ w' = w @@ (ym :> [NewWorker EXCEPT !.pc = "start"])
    /\ UNCHANGED <<now, tree, disk, cfg, pc, runs, lastUpload, newPhotos,
                   photosByYearMonth, uploadState, locks, counters, hist, faults>>

\* lines 100-105: the goroutine starts and names its archive; no slot is taken
TestStart(k) ==
    /\ At(k, "start")
    /\ w' = [w EXCEPT ![k].pc = "zip", ![k].zipName = TestZipName(k, now)]
    /\ UNCHANGED <<now, tree, disk, cfg, pc, runs, mainMem, locks, counters, hist, faults>>

\* lines 110-111, 100: failedZips++, mu.Unlock(), the goroutine ends
TestZipFailCount(k) ==
    /\ At(k, "zipfailed")
    /\ failedZips' = failedZips + 1
    /\ mu' = None
    /\ w' = [w EXCEPT ![k].pc = "Failed", ![k].why = "zip"]
    /\ UNCHANGED <<now, tree, disk, cfg, pc, runs, mainMem, sem, progressMu, failedUploads, fileProgress, hist, faults>>

\* lines 125, 130-131: the one call of UploadToS3 returns nil
TestUploadOk(k) ==
    /\ At(k, "upload")
    /\ w[k].zipName \in DOMAIN zips
    /\ s3' = Put(s3, TestRemoteKey(k), [body |-> zips[w[k].zipName].files, by |-> k])
    /\ w' = [w EXCEPT ![k].pc = "bar", ![k].puts = @ + 1, ![k].putOk = @ + 1]
    /\ UNCHANGED <<now, tree, lastUploadFile, stateFile, zips, cfg, pc, runs, mainMem, locks, counters, hist, faults>>

\* lines 125-126: the one call of UploadToS3 returns an error
TestUploadErr(k) ==
    /\ At(k, "upload")
    /\ w' = [w EXCEPT ![k].pc = "upfail", ![k].puts = @ + 1]
    /\ Fault
    /\ UNCHANGED <<now, tree, disk, cfg, pc, runs, mainMem, locks, counters, hist>>

\* lines 128-129, 100: failedUploads++, mu.Unlock(), the goroutine ends
TestUploadFailCount(k) ==
    /\ At(k, "upfailed")
    /\ failedUploads' = failedUploads + 1
    /\ mu' = None
    /\ w' = [w EXCEPT ![k].pc = "Failed", ![k].why = "upload"]
    /\ UNCHANGED <<now, tree, disk, cfg, pc, runs, mainMem, sem, progressMu, failedZips, fileProgress, hist, faults>>

\* lines 132-135, 100: updateBar under progressMu, os.Remove(zipName), the
\* goroutine ends
TestFinish(k) ==
    /\ At(k, "bar")
    /\ progressMu = None
    /\ zips' = Drop(zips, w[k].zipName)
    /\ w' = [w EXCEPT ![k].pc = "Completed"]
    /\ UNCHANGED <<now, tree, lastUploadFile, stateFile, s3, cfg, pc, runs, mainMem, locks, counters, hist, faults>>

\* lines 140-141: the barrier, the counts are printed and main returns; the
\* memory of the process is kept for inspection
TestWaitDone ==
    /\ pc = "launch"
    /\ todo = {}
    /\ AllDone
    /\ pc' = "done"
    /\ UNCHANGED <<now, tree, disk, cfg, runs, mainMem, w, locks, counters, hist, faults>>

NextTest ==
    \/ Tick
    \/ TestScan
    \/ MetaUpload
    \/ TestGroup
    \/ TestLaunchIter
    \/ TestWaitDone
    \/ \E k \in Launched : TestStart(k)
    \/ \E k \in Launched : ZipOk(k)
    \/ \E k \in Launched : ZipFail(k)
    \/ \E k \in Launched : ZipFailLock(k)
    \/ \E k \in Launched : TestZipFailCount(k)
    \/ \E k \in Launched : ProgressLock(k)
    \/ \E k \in Launched : ProgressStep(k)
    \/ \E k \in Launched : TestUploadOk(k)
    \/ \E k \in Launched : TestUploadErr(k)
    \/ \E k \in Launched : UploadFailLock(k)
    \/ \E k \in Launched : TestUploadFailCount(k)
    \/ \E k \in Launched : TestFinish(k)

SpecTest == InitTest /\ [][NextTest]_vars

\* the test workers that have started and not yet ended
TestActive == {k \in Launched : w[k].pc \notin {"start", "Completed", "Failed"}}

\* ------------------------------------------------------------ observations
\* the files held by an archive whose put succeeded
Uploaded == UNION {s3[x].body : x \in DOMAIN s3}

\* the watermark as the next run will read it
Watermark == GetLastUploadTime(lastUploadFile)

\* the workers that hold a slot of the semaphore
Holders == {k \in Launched : w[k].pc \notin {"acquire", "Completed", "Failed"}}

\* ------------------------------------------------------------------ claims
\* C1: the watermark means "uploaded through this instant": every eligible
\* file a run discovered whose resolved time is at or before the watermark
\* is in an archive whose put succeeded.
C1_WatermarkMeansUploaded ==
    \A f \in hist.discovered : f.taken <= Watermark => f \in Uploaded

C3_FailedGroupRetried ==
    /\ \A k \in Failed : ~w[k].inserted
    /\ pc \in {"meta", "group"} => hist.pending \subseteq Keys(Range(newPhotos))
    /\ pc = "launch" => hist.pending \subseteq (todo \cup Launched)
    /\ (pc = "done" /\ hist.last.how = "nothing") => hist.pending = {}

\* C4: when the process is killed, the ledger file on disk still holds the
\* record of every group that had reached Completed with its save done.
C4_KillKeepsCompleted ==
    pc = "killed" => hist.last.saved \subseteq DOMAIN LoadUploadState(stateFile)

\* C5: in one run the watermark is written at most once, never while the run
\* is going on, and when it is written no launched worker is short of a
\* terminal state and no group is left unvisited.
C5_WatermarkOnceAfterBarrier ==
    /\ hist.writes <= 1
    /\ Running => hist.writes = 0 /\ Watermark = lastUpload
    /\ RanToEnd => hist.writes = 1 /\ hist.last.live = {}

C5_Witness ==
    RanToEnd /\ Cardinality(hist.last.completed \cup hist.last.failed) >= 2

\* C6: a run in which some group ended Failed leaves the watermark file as
\* it was.
C6_WatermarkOnlyOnSuccess ==
    (RanToEnd /\ hist.last.failed # {}) => lastUploadFile = hist.last.wmBefore

\* C7: the workers between acquire and release are exactly the slots in use
\* and never more than max_concurrent_uploads; a worker still waiting for a
\* slot has named and built nothing.
C7_GateBound ==
    /\ Cardinality(Holders) = sem
    /\ sem <= cfg.MaxConcurrentUploads
    /\ \A k \in Launched : w[k].pc = "acquire" =>
          w[k].zipName = <<>> /\ w[k].puts = 0 /\ w[k].i = 0

C7_Witness ==
    /\ sem >= 1
    /\ sem = cfg.MaxConcurrentUploads
    /\ \E k \in Launched : w[k].pc = "acquire"

\* C8: a put that fails twice and then succeeds gives a Completed group with
\* a ledger entry and no failure counted; three failed puts give exactly one
\* failedUploads increment, no fourth put and no ledger entry for the group.
C8_RetryBound ==
    /\ \A k \in Launched :
          /\ w[k].puts <= 3
          /\ (Terminal(k) /\ w[k].puts = 3 /\ w[k].putOk = 1) =>
                /\ w[k].pc = "Completed"
                /\ w[k].why = "none"
                /\ w[k].inserted
                /\ k \in DOMAIN uploadState
                /\ uploadState[k] = w[k].zipName
          /\ (Terminal(k) /\ w[k].puts = 3 /\ w[k].putOk = 0) =>
                /\ w[k].pc = "Failed"
                /\ w[k].why = "upload"
                /\ ~w[k].inserted
                /\ w[k].saved = "none"
          /\ w[k].why = "upload" => w[k].puts = 3 /\ w[k].putOk = 0
    /\ failedUploads = Cardinality({k \in Launched : w[k].why = "upload"})
    /\ failedZips = Cardinality({k \in Launched : w[k].why = "zip"})

C8_Witness ==
    \E k \in Launched : w[k].pc = "Completed" /\ w[k].puts = 3 /\ w[k].putOk = 1

\* C9: every key this run put into the ledger belongs to an archive whose
\* put succeeded and, unless the storage class is cold, whose local digest
\* was found equal to the digest of the fetched object.
C9_LedgerMeansVerified ==
    \A k \in Launched : w[k].inserted =>
        /\ w[k].putOk >= 1
        /\ ~ColdStorage => w[k].check = "verified"

\* C10: a group whose verification found a mismatch, or could not fetch the object
\* or hash the archive, is never Failed: it goes on, its ledger entry is
\* written and saved, it ends Completed with its local archive removed, and
\* no failure is counted for it.
C10_VerificationAdvisory ==
    /\ \A k \in Launched : w[k].check \in {"mismatch", "remoteerr", "localerr"} =>
          /\ w[k].pc \in {"insert", "inserting", "save", "write", "bar", "Completed"}
          /\ w[k].why = "none"
          /\ w[k].pc \in {"bar", "Completed"} =>
                w[k].inserted /\ k \in DOMAIN uploadState /\ w[k].saved # "none"
          /\ w[k].pc = "Completed" => w[k].zipName \notin DOMAIN zips
    /\ failedZips + failedUploads = Cardinality(Failed)

C10_Witness ==
    \E k \in Launched : w[k].pc = "Completed" /\ w[k].check = "mismatch"

C12_DeleteLedgerForcesReupload ==
    (hist.owed # {} /\ (Running \/ hist.last.how = "nothing")) =>
        /\ hist.owed \subseteq Keys(Range(newPhotos))
        /\ pc = "launch" => hist.owed \subseteq (todo \cup Launched)

\* C13: a run over the tree the run before it scanned, with every group key
\* already in the ledger, has put nothing into the object store when it comes
\* to load the ledger, and a run that loaded every group key launches no
\* worker (so no archive is built and no put is issued later either).
C13_IdempotentResume ==
    /\ (pc = "group" /\ hist.rerun
           /\ Keys(Range(newPhotos)) \subseteq DOMAIN LoadUploadState(stateFile)) =>
          hist.meta # "put"
    /\ (pc = "launch" /\ DOMAIN photosByYearMonth \subseteq hist.loaded) => Launched = {}

\* C14: hist.kept holds the groups whose save had returned when the process
\* was killed. The ledger file still holds each of them, and the run after
\* the kill loads them and launches no worker for any of them.
C14_KillThenResume ==
    /\ pc = "killed" => hist.kept \subseteq DOMAIN LoadUploadState(stateFile)
    /\ (pc = "launch" /\ hist.kept # {}) =>
          /\ hist.kept \subseteq hist.loaded
          /\ Launched \cap hist.kept = {}

\* C15: the scan writes nothing; a run whose scan found no eligible file
\* ends right there, and no step of such a run changes the watermark file,
\* the ledger file, the local archives or the object store.
C15_NothingNewIsNoOp ==
    [][/\ runs' # runs => UNCHANGED disk
       /\ (runs' # runs /\ newPhotos' = <<>>) => (pc' = "done" /\ w' = <<>>)
       /\ (Running /\ newPhotos = <<>>) => UNCHANGED disk]_vars

C15_Witness ==
    /\ pc = "done"
    /\ hist.last.how = "nothing"
    /\ lastUploadFile # <<>>
    /\ stateFile.exists
    /\ \E f \in tree : ToLower(f.ext) \in AllowedExtensions

\* C16: with max_concurrent_uploads unset (zero after LoadConfig) the gate
\* works as with the documented default: a worker waiting for a slot gets
\* one as long as fewer than the default number of slots are taken.
C16_UnsetMeansDefault ==
    cfg.MaxConcurrentUploads = 0 =>
        \A k \in Launched :
            (At(k, "acquire") /\ sem < DefaultMaxConcurrentUploads) => CanAcquire

\* C17: the name a worker generates is new: before the worker has built or
\* put anything, no local archive of an earlier run has that name and no
\* object of an earlier run lies at its remote key.
C17_NamesNeverCollide ==
    \A k \in Launched :
        /\ w[k].pc = "zip" => w[k].zipName \notin DOMAIN zips
        /\ (w[k].zipName # <<>> /\ w[k].puts = 0) => RemoteKey(k) \notin DOMAIN s3

\* C18: when the first run of the worked example has returned, both groups
\* are Completed and none Failed, two archives lie in the object store and
\* hold the five files, the ledger file holds both group keys, no local
\* archive is left, and the watermark is not before the second of the start.
C18_ExampleRun ==
    (RanToEnd /\ runs = 1) =>
        /\ Cardinality(ExampleKeys) = 2
        /\ hist.last.completed = ExampleKeys
        /\ hist.last.failed = {}
        /\ Cardinality({x \in DOMAIN s3 : s3[x].by \in ExampleKeys}) = 2
        /\ Uploaded = ExampleTree
        /\ DOMAIN LoadUploadState(stateFile) = ExampleKeys
        /\ zips = <<>>
        /\ Watermark >= ParseRFC3339(FormatRFC3339(ExampleStart))

\* C19: after a scan with watermark T, no file whose time is T (or earlier)
\* is in the result, and every allowed file later than T, the file one
\* second after T among them, is in the result itself or through the first
\* file of its identity.
C19_StrictAfter ==
    runs >= 1 =>
        \A f \in tree :
            /\ f.taken <= lastUpload => f \notin Range(newPhotos)
            /\ (ToLower(f.ext) \in AllowedExtensions /\ f.taken > lastUpload) =>
                  \E g \in Range(newPhotos) : SameIdentity(f, g)

C19_Witness ==
    /\ runs >= 1
    /\ lastUpload > 0
    /\ \E f, g \in tree :
          /\ ToLower(f.ext) \in AllowedExtensions
          /\ ToLower(g.ext) \in AllowedExtensions
          /\ f.taken = lastUpload
          /\ g.taken = lastUpload + TicksPerSec
          /\ f \notin Range(newPhotos)
          /\ g \in Range(newPhotos)

\* C20: of the eligible files with one identity the scan keeps exactly the
\* first in walk order and drops every later one; no two kept files share
\* an identity.
C20_FirstOfIdentityKept ==
    runs >= 1 =>
        /\ Range(newPhotos) \subseteq Eligible
        /\ \A f \in Eligible :
              f \in Range(newPhotos) <=>
                  \A g \in Eligible : (g # f /\ SameIdentity(f, g)) => PathBefore(f.path, g.path)
        /\ \A i, j \in DOMAIN newPhotos : SameIdentity(newPhotos[i], newPhotos[j]) => i = j

C20_Witness ==
    /\ runs >= 1
    /\ \E f, g, h \in Eligible :
          /\ f.path[1] < g.path[1] /\ g.path[1] < h.path[1]
          /\ f.taken # g.taken
          /\ SameIdentity(f, g) /\ SameIdentity(g, h)
          /\ newPhotos = <<f>>

\* C21: grouping is total and disjoint: when main has grouped the scan's
\* result, every file of the result is in exactly one group, that group's
\* key is the zero-padded year-month of the file's time, and the groups
\* together hold the files of the result and nothing else.
C21_GroupingTotal ==
    pc = "launch" =>
        /\ \A f \in Range(newPhotos) :
              /\ Cardinality({k \in DOMAIN photosByYearMonth : f \in Range(photosByYearMonth[k])}) = 1
              /\ \A k \in DOMAIN photosByYearMonth :
                    f \in Range(photosByYearMonth[k]) => k = YearMonthKey(f.taken)
        /\ UNION {Range(photosByYearMonth[k]) : k \in DOMAIN photosByYearMonth} = Range(newPhotos)
        /\ \A k \in DOMAIN photosByYearMonth :
              \A i, j \in DOMAIN photosByYearMonth[k] :
                  photosByYearMonth[k][i] = photosByYearMonth[k][j] => i = j

\* C22: after a scan of a tree with N files whose extension is not an allowed
\* one in any letter case and M files whose extension is, the counts of the
\* excluded summary add up to N, the result has at most M files, and no file
\* of the N is in the result.
C22_ExclusionAccounting ==
    runs >= 1 =>
        LET allowed == {f \in tree : f.ext \in {".jpg", ".JPG"}}
        IN /\ Total(hist.excluded) = Cardinality(tree \ allowed)
           /\ Len(newPhotos) <= Cardinality(allowed)
           /\ Range(newPhotos) \subseteq allowed

C22_Witness ==
    /\ runs >= 1
    /\ Cardinality({f \in tree : f.ext = ".txt"}) = 1
    /\ Cardinality({f \in tree : f.ext = ".JPG"}) = 2
    /\ Total(hist.excluded) = 1
    /\ Len(newPhotos) = 1

\* C23: when main writes the watermark and the write succeeds, reading the
\* file back gives the time of the write cut to the whole second: a time
\* that is not the zero time, not later than the write and less than one
\* second before it.
C23_WatermarkRoundTrip ==
    [][(pc = "launch" /\ pc' = "done" /\ faults' = faults) =>
          LET t == GetLastUploadTime(lastUploadFile')
          IN /\ t # 0
             /\ t <= now
             /\ now - t < TicksPerSec
             /\ t % TicksPerSec = 0]_vars

C23_Witness ==
    /\ RanToEnd
    /\ lastUploadFile # hist.last.wmBefore
    /\ now % TicksPerSec # 0
    /\ Watermark = now - 1

\* C24: a scan that finds no watermark file, or one whose content does not
\* parse, works with the zero time as watermark, and every allowed file
\* whose time is not the zero time is in the result itself or through the
\* first file of its identity.
C24_NoWatermarkMeansAll ==
    (runs >= 1 /\ lastUploadFile \in {<<>>, Garbled}) =>
        /\ lastUpload = 0
        /\ \A f \in tree :
              (f.ext \in {".jpg", ".JPG"} /\ f.taken # 0) =>
                  \E g \in Range(newPhotos) : SameIdentity(f, g)

C24_Witness ==
    /\ runs >= 1
    /\ lastUploadFile = Garbled
    /\ \E f, g \in tree :
          /\ f.taken = 1 /\ g.taken = MaxTime
          /\ newPhotos = <<f, g>>

\* C25: the test upload runs the pipeline of the backup: never more than
\* max_concurrent_uploads workers at work, a group is given up only after
\* three failed puts, a group that is done had its archive verified and is in
\* the ledger file of the test mode; the remote key starts with test/ and
\* the run handles at most test_mode_limit files.
C25_TestModeSamePipeline ==
    /\ Cardinality(TestActive) <= cfg.MaxConcurrentUploads
    /\ \A k \in Launched :
          /\ w[k].why = "upload" => w[k].puts = MaxAttempts
          /\ w[k].pc = "Completed" => w[k].check # "none"
          /\ w[k].pc = "Completed" => k \in DOMAIN LoadUploadState(stateFile)
    /\ \A x \in DOMAIN s3 : x # <<"photo_metadata.json">> => SubSeq(x, 1, 5) = <<"t", "e", "s", "t", "/">>
    /\ cfg.TestModeLimit > 0 => Len(newPhotos) <= cfg.TestModeLimit

\* C26: the ledger map and its save are used under mutual exclusion: at
\* most one worker is between the start of the map assignment and the end
\* of the file save, and the launch loop does not come to its read of the
\* map while a worker is inside the map assignment.
C26_LedgerExclusion ==
    /\ Cardinality({k \in Launched : w[k].pc \in {"inserting", "save", "write"}}) <= 1
    /\ ~(pc = "launch" /\ todo # {} /\ Inserting # {})

\* C27: when every worker of a run is terminal and every save of the run
\* returned without an error, the ledger file holds one well-formed mapping
\* whose keys are the keys loaded at the start of the run and the keys of
\* the groups that ended Completed, each of these with its archive name.
C27_LedgerFileComplete ==
    (AtBarrier /\ \A k \in Completed : w[k].saved = "ok") =>
        /\ ~stateFile.junk
        /\ DOMAIN LoadUploadState(stateFile) = hist.loaded \cup Completed
        /\ \A k \in Completed \cap DOMAIN LoadUploadState(stateFile) :
              LoadUploadState(stateFile)[k] = w[k].zipName

\* C28: with max_concurrent_uploads >= 1 and calls that return, a run that
\* has started comes to the point where every launched worker is Completed
\* or Failed, no slot of the gate and no lock is held, and main returns.
C28_RunTerminates ==
    Running ~> (pc = "done" /\ sem = 0 /\ mu = None /\ progressMu = None)

\* C29: a worker issues at most three puts and none after a put that
\* succeeded; it has waited 1 second when it comes to its second put and 3
\* seconds (1 and 2) when it comes to its third, and a group given up after
\* three failed puts has waited those 3 seconds and no more.
C29_BackoffBetweenAttempts ==
    \A k \in Launched :
        /\ w[k].puts <= MaxAttempts
        /\ w[k].putOk <= 1
        /\ w[k].putOk = 1 => w[k].pc # "upload"
        /\ (w[k].pc = "upload" /\ w[k].puts = 1) => w[k].slept = 1
        /\ (w[k].pc = "upload" /\ w[k].puts = 2) => w[k].slept = 1 + 2
        /\ w[k].why = "upload" => w[k].slept = 1 + 2

\* C30: a worker removes its archive when it ends Completed and at no other
\* point: from the moment the archive is built the file is there as long as
\* the worker is short of Completed, a group given up after its puts failed
\* keeps its archive, whole, to the end of the run, and the archive of a
\* Completed group is gone.
C30_ArchiveRemovedOnCompletedOnly ==
    \A k \in Launched :
        /\ w[k].pc \in {"progress", "progressing", "upload", "upfail", "upfailed", "verify",
                        "insert", "inserting", "save", "write", "bar"} =>
              w[k].zipName \in DOMAIN zips
        /\ w[k].why = "upload" =>
              /\ w[k].zipName \in DOMAIN zips
              /\ zips[w[k].zipName].complete
        /\ w[k].pc = "Completed" => w[k].zipName \notin DOMAIN zips

C30_Witness ==
    /\ AtBarrier
    /\ \E j, k \in Launched :
          /\ w[j].why = "upload" /\ w[j].zipName \in DOMAIN zips
          /\ w[k].pc = "Completed" /\ w[k].zipName \notin DOMAIN zips

\* C31: a group whose archive build failed has had no put and no get, no
\* progress counted for its files, no verification and no ledger entry or
\* save; it ends Failed, failedZips counts each such group once, and from
\* the failed build on the worker does nothing but take mu, count and
\* return (the build is not tried again).
C31_BuildFailureIsFinal ==
    /\ [](/\ \A k \in Launched :
               (w[k].pc \in {"zipfail", "zipfailed"} \/ w[k].why = "zip") =>
                   /\ w[k].puts = 0
                   /\ w[k].gets = 0
                   /\ w[k].i = 0
                   /\ w[k].check = "none"
                   /\ ~w[k].inserted
                   /\ w[k].saved = "none"
                   /\ w[k].pc \in {"zipfail", "zipfailed", "Failed"}
          /\ failedZips = Cardinality({k \in Launched : w[k].why = "zip"}))
    /\ [][\A k \in Launched \cap DOMAIN w' :
              /\ w[k].pc = "zipfail" => w'[k].pc \in {"zipfail", "zipfailed"}
              /\ w[k].pc = "zipfailed" => w'[k].pc \in {"zipfailed", "Failed"}
              /\ (w[k].pc = "Failed" /\ w[k].why = "zip") => w'[k] = w[k]]_vars

C31_Witness ==
    /\ AtBarrier
    /\ failedZips = 1
    /\ \E j, k \in Launched :
          /\ w[j].why = "zip" /\ w[j].pc = "Failed"
          /\ w[k].pc = "Completed"

\* C32: the failure counters lose no update: at most one worker is between
\* mu.Lock and mu.Unlock and mu names it; in every state failedZips is the
\* number of groups that returned after a failed build and failedUploads
\* the number that returned after their last put failed; when every worker
\* has returned, these two and the Completed groups add up to the workers
\* launched.
C32_CountersExact ==
    /\ Cardinality({k \in Launched : w[k].pc \in {"zipfailed", "upfailed"}}) <= 1
    /\ \A k \in Launched : w[k].pc \in {"zipfailed", "upfailed"} <=> mu = k
    /\ failedZips = Cardinality({k \in Launched : w[k].pc = "Failed" /\ w[k].puts = 0})
    /\ failedUploads = Cardinality({k \in Launched : w[k].pc = "Failed" /\ w[k].puts = MaxAttempts})
    /\ AtBarrier => failedZips + failedUploads + Cardinality(Completed) = Cardinality(Launched)

C32_Witness ==
    /\ AtBarrier
    /\ cfg.MaxConcurrentUploads = 2
    /\ failedZips = 2
    /\ Cardinality(Launched) = 2


\* C33: the file-progress counter is the sum over the launched groups of the
\* files each has counted; a group counts none before its archive is built
\* or when the build failed, one per file while it walks its files, and all
\* of them once it is past the loop; a group that was skipped has no worker
\* and counts none; the counter never exceeds totalFiles; progressMu names
\* the one worker between Lock and Unlock; and while the process runs every
\* step leaves the counter alone or adds exactly one, for one file of the
\* worker that holds progressMu.
C33_ProgressCounter ==
    /\ [](pc = "launch" =>
            /\ fileProgress = Total([k \in Launched |-> w[k].i])
            /\ fileProgress <= totalFiles
            /\ \A k \in Launched :
                  /\ w[k].i <= Len(Files(k))
                  /\ (w[k].pc \in {"acquire", "zip", "zipfail", "zipfailed"} \/ w[k].why = "zip")
                        => w[k].i = 0
                  /\ w[k].pc \in {"progress", "progressing"} => w[k].i < Len(Files(k))
                  /\ (w[k].pc \notin {"acquire", "zip", "zipfail", "zipfailed", "progress", "progressing"}
                        /\ w[k].why # "zip") => w[k].i = Len(Files(k))
                  /\ w[k].pc = "progressing" <=> progressMu = k)
    /\ [][(pc = "launch" /\ pc' = "launch") =>
            \/ fileProgress' = fileProgress
            \/ /\ progressMu \in Launched
               /\ fileProgress' = fileProgress + 1
               /\ w'[progressMu].i = w[progressMu].i + 1
               /\ \A k \in Launched \ {progressMu} : w'[k].i = w[k].i]_vars

C33_Witness ==
    /\ AtBarrier
    /\ totalFiles = 5
    /\ fileProgress = 3
    /\ \E k \in Launched : w[k].why = "zip" /\ Len(Files(k)) = 2
    /\ \E k \in Launched : w[k].pc = "Completed" /\ w[k].i = 3


\* C34: a file that appears while a run is in progress stays eligible. When
\* the barrier opens and main writes the watermark, every allowed file of
\* the tree whose resolved time is later, to the second, than the moment a
\* worker of this run named its archive (so the scan of this run, which
\* came before, cannot have seen it) and earlier, to the second, than the
\* write is strictly after the watermark that the next run will read.
C34_LateFileStaysEligible ==
    [][(AtBarrier /\ pc' = "done") =>
          \A f \in tree :
             (/\ ToLower(f.ext) \in {ToLower(e) : e \in AllowedExtensions}
              /\ f \notin hist.discovered
              /\ \E k \in Launched, t \in 0..MaxTime :
                    w[k].zipName = ZipName(k, t) /\ Sec(t) < Sec(f.taken)
              /\ Sec(f.taken) < Sec(now))
             => After(f.taken, GetLastUploadTime(lastUploadFile'))]_vars

\* C35: the steps of a group are ordered. A group is entered in the ledger
\* only when a put of its archive succeeded in this run; its archive is
\* deleted only when the save of the ledger was attempted; and in a run in
\* which no save failed, a group whose archive is deleted has its entry in
\* upload_state.json.
C35_OrderedSteps ==
    \A k \in Launched :
        /\ (w[k].pc = "inserting" \/ w[k].inserted) => w[k].putOk >= 1
        /\ (w[k].pc = "Completed" /\ w[k].zipName \notin DOMAIN zips) => w[k].saved # "none"
        /\ (/\ w[k].pc = "Completed"
            /\ w[k].zipName \notin DOMAIN zips
            /\ \A j \in Launched : w[j].saved # "error")
              => k \in DOMAIN LoadUploadState(stateFile)


\* C36: the remote key of a group is the configured template with {year}
\* replaced by the year of the group and {zip} by the name of its archive,
\* and the template {year}/{zip} when none is configured: every put of a
\* worker that succeeds stores the group's files under that key and leaves
\* every other object alone. With no template configured, two groups of a
\* run whose puts succeeded each have an object of their own.
C36_RemoteKeyFromTemplate ==
    /\ [](\A j, k \in Launched :
             (cfg.S3KeyFormat = <<>> /\ j # k /\ w[j].putOk >= 1 /\ w[k].putOk >= 1) =>
                 \E x, y \in DOMAIN s3 : x # y /\ s3[x].by = j /\ s3[y].by = k)
    /\ [][\A k \in Launched \cap DOMAIN w', t \in KeyTemplates :
             (cfg.S3KeyFormat = Render(t) /\ w'[k].putOk = w[k].putOk + 1) =>
                 LET year == Pad(Year(Files(k)[1].taken), 4)
                     key == Fill(IF t = <<>> THEN <<"{year}", "/", "{zip}">> ELSE t, year, w[k].zipName)
                 IN /\ key \in DOMAIN s3'
                    /\ s3'[key] = [body |-> Range(Files(k)), by |-> k]
                    /\ \A x \in DOMAIN s3' \ {key} : x \in DOMAIN s3 /\ s3'[x] = s3[x]]_vars

C36_Witness ==
    /\ cfg.S3KeyFormat = Render(<<"{zip}", "@", "{year}">>)
    /\ \E j, k \in Launched :
          /\ j # k
          /\ SplitFirst(j) = SplitFirst(k)
          /\ w[j].putOk = 1 /\ w[k].putOk = 1
          /\ (w[j].zipName \o <<"@">> \o SplitFirst(j)) \in DOMAIN s3
          /\ (w[k].zipName \o <<"@">> \o SplitFirst(k)) \in DOMAIN s3


\* C37: the outcome of a run is a function of what the collaborators gave
\* each group, whatever the interleaving and the number of slots. When every
\* worker has returned: the workers launched are those of the groups the
\* loaded ledger did not hold; a group is Completed exactly when its archive
\* was built and one of its puts succeeded, and Failed otherwise, whatever
\* became of the other groups; failedZips counts the groups whose build
\* failed and failedUploads those built and never put; and, when no save
\* failed, upload_state.json holds the loaded entries and one entry for
\* each group built and put, with the name of its archive.
C37_OutcomeIsFunctionOfResults ==
    AtBarrier =>
        LET built == {k \in Launched : w[k].i = Len(Files(k))}
            put == {k \in Launched : w[k].putOk >= 1}
        IN /\ Launched = DOMAIN photosByYearMonth \ hist.loaded
           /\ \A k \in Launched :
                 w[k].pc = IF k \in built \cap put THEN "Completed" ELSE "Failed"
           /\ failedZips = Cardinality(Launched \ built)
           /\ failedUploads = Cardinality(built \ put)
           /\ (\A k \in Launched : w[k].saved # "error") =>
                 /\ ~stateFile.junk
                 /\ DOMAIN LoadUploadState(stateFile) = hist.loaded \cup (built \cap put)
                 /\ \A k \in built \cap put : LoadUploadState(stateFile)[k] = w[k].zipName

====
